---- MODULE Spec2Model ----
(***************************************************************************)
(* Model of `rtx doctor` (src/cli/doctor.rs): Doctor::run and the view     *)
(* renderers it calls.  One run of the command is one behaviour: the       *)
(* collaborators' answers (toolset build, plugin registry, version-control *)
(* metadata, shell detection, release check, activation state) are chosen  *)
(* in Init and stay fixed, and each statement of Doctor::run is one step.  *)
(*                                                                         *)
(* Text is modelled as a sequence of lines: a Rust string "a\nb\n" is      *)
(* <<"a", "b">>.  `out` holds one element per rtxprintln! call, the lines  *)
(* that call wrote.  Terminal styling (bold, colours) is not modelled.     *)
(***************************************************************************)
EXTENDS Integers, Sequences, FiniteSets, TLC

VARIABLES
    toolset_build,  \* the result of ToolsetBuilder::new().build(&mut config)
    config,         \* the Config passed to run: plugins, config_files, activated
    environment,    \* env::SHELL, env::vars(), ShellType::load(), the --version probe
    release,        \* the outcome of the release query behind check_for_new_version
    pc,             \* the statement of Doctor::run that executes next
    out,            \* the writes made to `out`, one element per rtxprintln!
    checks,         \* the local Vec `checks` of Doctor::run
    i,              \* position of the loops over plugins and over checks
    calls,          \* the collaborator calls made so far, in order
    returned,       \* what run returned to its caller: "none", "Ok" or "Err"
    exited          \* Some(status) once std::process::exit(status) was called

vars == <<toolset_build, config, environment, release, pc, out, checks, i, calls, returned, exited>>

inputs == <<toolset_build, config, environment, release>>

(***************************************************************************)
(* Bounds of the model.                                                    *)
(***************************************************************************)
MaxPlugins == 3

MaxConfigFiles == 3

(***************************************************************************)
(* Option and Result values.                                               *)
(***************************************************************************)
None == <<>>

Some(x) == <<x>>

Unwrap(o) == o[1]

Ok(x) == [ok |-> x]

Err(e) == [err |-> e]

IsOk(r) == "ok" \in DOMAIN r

(***************************************************************************)
(* String helpers (Rust std / console / indenter).                         *)
(***************************************************************************)
\* str::ends_with
EndsWith(s, suffix) ==
    /\ Len(suffix) <= Len(s)
    /\ SubSeq(s, Len(s) - Len(suffix) + 1, Len(s)) = suffix

\* str::starts_with
StartsWith(s, prefix) ==
    /\ Len(prefix) <= Len(s)
    /\ SubSeq(s, 1, Len(prefix)) = prefix

RECURSIVE Spaces(_)
Spaces(n) == IF n <= 0 THEN "" ELSE " " \o Spaces(n - 1)

\* console::pad_str(s, width, Alignment::Left, None): pads on the right up to
\* width and, with no truncation marker given, never shortens the string.
PadLeftAligned(s, width) == s \o Spaces(width - Len(s))

\* indent: indenter::indented(..).with_str("  ") puts two spaces in front of
\* every non-empty line.
indent(lines) ==
    [k \in 1..Len(lines) |-> IF lines[k] = "" THEN "" ELSE "  " \o lines[k]]

\* rtxprintln!(out, "{}", s): the lines of s and the macro's own newline.  A
\* text that already ends in "\n" therefore leaves an empty last line.
Println(lines) == lines \o <<"">>

RECURSIVE SeqMax(_)
SeqMax(s) ==
    IF s = <<>> THEN None
    ELSE LET rest == SeqMax(Tail(s))
         IN IF rest = None \/ Head(s) >= Unwrap(rest) THEN Some(Head(s)) ELSE rest

(***************************************************************************)
(* Values compiled into the binary.                                        *)
(***************************************************************************)
\* *VERSION (cli/version.rs), shown by the version view
VERSION == "1.30.4 linux-x64 (built 2023-06-01)"

\* env!("CARGO_PKG_VERSION")
CARGO_PKG_VERSION == "1.30.4"

(***************************************************************************)
(* The views.  Each renderer yields the text it returns and the            *)
(* collaborator calls it made while rendering.                             *)
(***************************************************************************)
rtx_version == <<"rtx version:", "  " \o VERSION>>

\* The command the shell probe runs: env::SHELL when it ends with the detected
\* shell's name, the bare name otherwise.
shell_cmd(SHELL, shell) == IF EndsWith(SHELL, shell) THEN SHELL ELSE shell

\* .read().unwrap_or_else(|e| format!("failed to get shell version: {}", e))
shell_version(probe) ==
    IF IsOk(probe) THEN probe.ok ELSE "failed to get shell version: " \o probe.err

shell(env) ==
    IF env.shell_type # None
    THEN LET name == Unwrap(env.shell_type)
             cmd == shell_cmd(env.SHELL, name)
         IN [text  |-> <<"shell:">> \o indent(<<cmd, shell_version(env.probe)>>),
             calls |-> << <<"ShellType::load", "">>, <<"cmd --version", cmd>> >>]
    ELSE [text  |-> <<"shell:", "  (unknown)">>,
          calls |-> << <<"ShellType::load", "">> >>]

rtx_env_vars(env) ==
    LET vs == SelectSeq(env.vars, LAMBDA kv : StartsWith(kv[1], "RTX_"))
    IN <<"rtx environment variables:">>
         \o (IF vs = <<>> THEN <<"  (none)">> ELSE <<>>)
         \o [k \in 1..Len(vs) |-> "  " \o vs[k][1] \o "=" \o vs[k][2]]

settings_view(cfg) == <<"settings:">> \o indent(cfg.settings)

\* render_config_files without .rev(): rows in discovery order.
render_config_files_Forward(cfg) ==
    <<"config files:">> \o [k \in 1..Len(cfg.config_files) |-> "  " \o cfg.config_files[k]]

\* config.config_files.keys().rev(): one row per key, last key first.
render_config_files(cfg) ==
    LET n == Len(cfg.config_files)
    IN <<"config files:">> \o [k \in 1..n |-> "  " \o cfg.config_files[n + 1 - k]]

\* max_plugin_name_len keeping the last length seen instead of the largest.
max_plugin_name_len_Last(cfg) ==
    IF cfg.plugins = <<>> THEN 0 ELSE Len(cfg.plugins[Len(cfg.plugins)].name)

max_plugin_name_len(cfg) ==
    LET m == SeqMax([k \in 1..Len(cfg.plugins) |-> Len(cfg.plugins[k].name)])
    IN IF m = None THEN 0 ELSE Unwrap(m)

\* The current_sha_short() lookup with its fallback.
sha_or_unknown(p) == IF IsOk(p.sha) THEN p.sha.ok ELSE "(unknown)"

\* One iteration of the loop of render_plugins.
plugin_row(p, width) ==
    LET padded_name == PadLeftAligned(p.name, width)
    IN IF p.remote_url # None
       THEN [line  |-> "  " \o padded_name \o " " \o Unwrap(p.remote_url)
                            \o "#" \o sha_or_unknown(p),
             calls |-> << <<"get_remote_url", p.name>>,
                          <<"current_sha_short", p.name>> >>]
       ELSE [line  |-> "  " \o padded_name,
             calls |-> << <<"get_remote_url", p.name>> >>]

RECURSIVE Concat(_)
Concat(ss) == IF ss = <<>> THEN <<>> ELSE Head(ss) \o Concat(Tail(ss))

\* render_plugins skipping the plugins that are not installed.
render_plugins_InstalledOnly(cfg) ==
    LET width == max_plugin_name_len(cfg)
        shown == SelectSeq(cfg.plugins, LAMBDA p : p.installed)
        rows == [k \in 1..Len(shown) |-> plugin_row(shown[k], width)]
    IN [text  |-> <<"plugins:">> \o [k \in 1..Len(rows) |-> rows[k].line],
        calls |-> Concat([k \in 1..Len(rows) |-> rows[k].calls])]

render_plugins(cfg) ==
    LET width == max_plugin_name_len(cfg)
        rows == [k \in 1..Len(cfg.plugins) |-> plugin_row(cfg.plugins[k], width)]
    IN [text  |-> <<"plugins:">> \o [k \in 1..Len(rows) |-> rows[k].line],
        calls |-> Concat([k \in 1..Len(rows) |-> rows[k].calls])]

toolset_view(ts) == <<"toolset:">> \o indent(ts)

(***************************************************************************)
(* The release checker, cli::version::check_for_new_version.  Its code is  *)
(* outside the modelled file; per its interface it yields the latest       *)
(* version when one newer than the running one exists and None in every    *)
(* other case, a failed or unreachable query included.                     *)
(***************************************************************************)
check_for_new_version(r) == IF r.kind = "newer" THEN Some(r.latest) ELSE None

(***************************************************************************)
(* The problem messages.                                                   *)
(***************************************************************************)
not_installed_msg(name) == "plugin " \o name \o " is not installed"

new_version_msg(latest) ==
    "new rtx version " \o latest \o " available, currently on " \o CARGO_PKG_VERSION

\* (the back quotes around the command are written as plain quotes here)
not_activated_msg == "rtx is not activated, run 'rtx activate' for setup instructions"

\* checks_plural without the singular case.
checks_plural_Always(n) == "s"

checks_plural(n) == IF n = 1 THEN "" ELSE "s"

summary(n) == ToString(n) \o " problem" \o checks_plural(n) \o " found:"

(***************************************************************************)
(* The inputs of a run.                                                    *)
(***************************************************************************)
PluginNames == {"zig", "haskell", "ocaml"}

RemoteUrls == {"https://github.com/x/p.git"}

\* What the version-control reader says of a plugin directory: no remote, or a
\* remote whose short revision can or cannot be read.
GitStates ==
    {[remote_url |-> None, sha |-> Err("not a git repository")]}
      \cup {[remote_url |-> Some(u), sha |-> r] :
               u \in RemoteUrls, r \in {Ok("a1b2c3d"), Err("git rev-parse failed")}}

PluginRecords(names) ==
    {[name |-> n, installed |-> b, remote_url |-> g.remote_url, sha |-> g.sha] :
        n \in names, b \in BOOLEAN, g \in GitStates}

Names(registry) == {registry[k].name : k \in 1..Len(registry)}

\* config.plugins is a map keyed by plugin name: every order of every choice of
\* at most n plugins with distinct names.
RECURSIVE Registries(_, _)
Registries(names, n) ==
    IF n = 0 THEN {<<>>}
    ELSE LET shorter == Registries(names, n - 1)
         IN shorter \cup UNION {{Append(r, p) : p \in PluginRecords(names \ Names(r))} :
                                   r \in shorter}

ConfigPaths == {"/etc/rtx.toml", "~/.config/rtx/config.toml", "~/src/.tool-versions", ".rtx.toml"}

Range(s) == {s[k] : k \in 1..Len(s)}

\* config.config_files is a map keyed by path: sequences of distinct paths.
RECURSIVE ConfigFileLists(_, _)
ConfigFileLists(paths, n) ==
    IF n = 0 THEN {<<>>}
    ELSE LET shorter == ConfigFileLists(paths, n - 1)
         IN shorter \cup UNION {{Append(fs, f) : f \in paths \ Range(fs)} : fs \in shorter}

Configs(registries, file_lists) ==
    {[plugins |-> r, config_files |-> fs, activated |-> a,
      settings |-> <<"experimental = false", "verbose = false">>] :
        r \in registries, fs \in file_lists, a \in BOOLEAN}

ProbeResults == {Ok("zsh 5.9 (x86_64-pc-linux-gnu)"), Err("No such file or directory (os error 2)")}

\* The process environment and what the shell detector and the probe answer.
Environments(shells, detected, var_lists) ==
    {[SHELL |-> sh, vars |-> vs, shell_type |-> None, probe |-> Err("not run")] :
        sh \in shells, vs \in var_lists}
      \cup {[SHELL |-> sh, vars |-> vs, shell_type |-> Some(d), probe |-> pr] :
               sh \in shells, vs \in var_lists, d \in detected, pr \in ProbeResults}

Releases ==
    {[kind |-> k, latest |-> "1.31.0"] : k \in {"failed", "unreachable", "up_to_date", "newer"}}

Builds == {Ok(<<"nodejs@18.16.0", "python@3.11.3">>), Err("failed to resolve toolset")}

InitWith(configs, environments) ==
    /\ toolset_build \in Builds
    /\ config \in configs
    /\ environment \in environments
    /\ release \in Releases
    /\ pc = "build"
    /\ out = <<>>
    /\ checks = <<>>
    /\ i = 1
    /\ calls = <<>>
    /\ returned = "none"
    /\ exited = None

(***************************************************************************)
(* Doctor::run, one action per statement.                                  *)
(***************************************************************************)
\* ToolsetBuilder::new().build(&mut config)?  -- success
BuildOk ==
    /\ pc = "build"
    /\ IsOk(toolset_build)
    /\ calls' = Append(calls, <<"ToolsetBuilder::build", "">>)
    /\ pc' = "version"
    /\ UNCHANGED <<inputs, out, checks, i, returned, exited>>

\* BuildErr with the build moved below the first view: the version is written
\* before the failure is returned.
BuildErr_AfterVersion ==
    /\ pc = "build"
    /\ ~IsOk(toolset_build)
    /\ calls' = Append(calls, <<"ToolsetBuilder::build", "">>)
    /\ out' = Append(out, Println(rtx_version))
    /\ returned' = "Err"
    /\ pc' = "done"
    /\ UNCHANGED <<inputs, checks, i, exited>>

\* ... and failure: the ? operator returns the error to the caller.
BuildErr ==
    /\ pc = "build"
    /\ ~IsOk(toolset_build)
    /\ calls' = Append(calls, <<"ToolsetBuilder::build", "">>)
    /\ returned' = "Err"
    /\ pc' = "done"
    /\ UNCHANGED <<inputs, out, checks, i, exited>>

PrintVersion ==
    /\ pc = "version"
    /\ out' = Append(out, Println(rtx_version))
    /\ pc' = "shell"
    /\ UNCHANGED <<inputs, checks, i, calls, returned, exited>>

\* PrintShell with the probe's failure propagated (a `?` in place of
\* unwrap_or_else): the run ends with the error.
PrintShell_Propagates ==
    /\ pc = "shell"
    /\ IF environment.shell_type # None /\ ~IsOk(environment.probe)
       THEN /\ returned' = "Err"
            /\ pc' = "done"
            /\ UNCHANGED <<out, calls>>
       ELSE /\ LET r == shell(environment)
               IN /\ out' = Append(out, Println(r.text))
                  /\ calls' = calls \o r.calls
            /\ pc' = "env_vars"
            /\ UNCHANGED returned
    /\ UNCHANGED <<inputs, checks, i, exited>>

PrintShell ==
    /\ pc = "shell"
    /\ LET r == shell(environment)
       IN /\ out' = Append(out, Println(r.text))
          /\ calls' = calls \o r.calls
    /\ pc' = "env_vars"
    /\ UNCHANGED <<inputs, checks, i, returned, exited>>

PrintEnvVars ==
    /\ pc = "env_vars"
    /\ out' = Append(out, Println(rtx_env_vars(environment)))
    /\ pc' = "settings"
    /\ UNCHANGED <<inputs, checks, i, calls, returned, exited>>

PrintSettings ==
    /\ pc = "settings"
    /\ out' = Append(out, Println(settings_view(config)))
    /\ pc' = "config_files"
    /\ UNCHANGED <<inputs, checks, i, calls, returned, exited>>

PrintConfigFiles ==
    /\ pc = "config_files"
    /\ out' = Append(out, Println(render_config_files(config)))
    /\ pc' = "plugins"
    /\ UNCHANGED <<inputs, checks, i, calls, returned, exited>>

PrintPlugins ==
    /\ pc = "plugins"
    /\ LET r == render_plugins(config)
       IN /\ out' = Append(out, Println(r.text))
          /\ calls' = calls \o r.calls
    /\ pc' = "toolset"
    /\ UNCHANGED <<inputs, checks, i, returned, exited>>

PrintToolset ==
    /\ pc = "toolset"
    /\ out' = Append(out, Println(toolset_view(toolset_build.ok)))
    /\ pc' = "check_plugins"
    /\ UNCHANGED <<inputs, checks, i, calls, returned, exited>>

\* CheckPlugin with the test inverted: a problem for every installed plugin.
CheckPlugin_Inverted ==
    /\ pc = "check_plugins"
    /\ i <= Len(config.plugins)
    /\ LET plugin == config.plugins[i]
       IN /\ calls' = Append(calls, <<"is_installed", plugin.name>>)
          /\ checks' = IF plugin.installed
                       THEN Append(checks, not_installed_msg(plugin.name))
                       ELSE checks
    /\ i' = i + 1
    /\ UNCHANGED <<inputs, pc, out, returned, exited>>

\* CheckPlugin leaving the pipeline at the first problem: the remaining plugins
\* and the two later checks are skipped.
CheckPlugin_EarlyExit ==
    /\ pc = "check_plugins"
    /\ i <= Len(config.plugins)
    /\ LET plugin == config.plugins[i]
       IN /\ calls' = Append(calls, <<"is_installed", plugin.name>>)
          /\ IF ~plugin.installed
             THEN /\ checks' = Append(checks, not_installed_msg(plugin.name))
                  /\ pc' = "summary"
             ELSE UNCHANGED <<checks, pc>>
    /\ i' = i + 1
    /\ UNCHANGED <<inputs, out, returned, exited>>

\* One iteration of `for plugin in config.plugins.values()`.
CheckPlugin ==
    /\ pc = "check_plugins"
    /\ i <= Len(config.plugins)
    /\ LET plugin == config.plugins[i]
       IN /\ calls' = Append(calls, <<"is_installed", plugin.name>>)
          /\ checks' = IF ~plugin.installed
                       THEN Append(checks, not_installed_msg(plugin.name))
                       ELSE checks
    /\ i' = i + 1
    /\ UNCHANGED <<inputs, pc, out, returned, exited>>

\* The loop over the plugins is exhausted.
CheckPluginsEnd ==
    /\ pc = "check_plugins"
    /\ i > Len(config.plugins)
    /\ pc' = "check_version"
    /\ UNCHANGED <<inputs, out, checks, i, calls, returned, exited>>

\* CheckNewVersion treating "no latest version" as a failure of the run.
CheckNewVersion_Propagates ==
    /\ pc = "check_version"
    /\ calls' = Append(calls, <<"check_for_new_version", "">>)
    /\ LET latest == check_for_new_version(release)
       IN IF latest # None
          THEN /\ checks' = Append(checks, new_version_msg(Unwrap(latest)))
               /\ pc' = "check_activated"
               /\ UNCHANGED returned
          ELSE /\ returned' = "Err"
               /\ pc' = "done"
               /\ UNCHANGED checks
    /\ UNCHANGED <<inputs, out, i, exited>>

\* if let Some(latest) = cli::version::check_for_new_version() { checks.push(..) }
CheckNewVersion ==
    /\ pc = "check_version"
    /\ LET latest == check_for_new_version(release)
       IN checks' = IF latest # None
                    THEN Append(checks, new_version_msg(Unwrap(latest)))
                    ELSE checks
    /\ calls' = Append(calls, <<"check_for_new_version", "">>)
    /\ pc' = "check_activated"
    /\ UNCHANGED <<inputs, out, i, returned, exited>>

\* if !config.is_activated() { checks.push(..) }
CheckActivated ==
    /\ pc = "check_activated"
    /\ checks' = IF ~config.activated THEN Append(checks, not_activated_msg) ELSE checks
    /\ calls' = Append(calls, <<"is_activated", "">>)
    /\ pc' = "summary"
    /\ UNCHANGED <<inputs, out, i, returned, exited>>

\* if checks.is_empty() { rtxprintln!(out, "No problems found"); }
NoProblems ==
    /\ pc = "summary"
    /\ checks = <<>>
    /\ out' = Append(out, <<"No problems found">>)
    /\ pc' = "return"
    /\ UNCHANGED <<inputs, checks, i, calls, returned, exited>>

\* else { ...; rtxprintln!(out, "{}", style(summary).red().bold());
PrintSummary ==
    /\ pc = "summary"
    /\ checks # <<>>
    /\ out' = Append(out, <<summary(Len(checks))>>)
    /\ i' = 1
    /\ pc' = "print"
    /\ UNCHANGED <<inputs, checks, calls, returned, exited>>

\* One iteration of `for check in &checks { rtxprintln!(out, "{}\n", check); }`
PrintProblem ==
    /\ pc = "print"
    /\ i <= Len(checks)
    /\ out' = Append(out, Println(<<checks[i]>>))
    /\ i' = i + 1
    /\ UNCHANGED <<inputs, pc, checks, calls, returned, exited>>

\* exit(1), after the loop over the checks
Exit ==
    /\ pc = "print"
    /\ i > Len(checks)
    /\ exited' = Some(1)
    /\ pc' = "done"
    /\ UNCHANGED <<inputs, out, checks, i, calls, returned>>

\* Ok(())
ReturnOk ==
    /\ pc = "return"
    /\ returned' = "Ok"
    /\ pc' = "done"
    /\ UNCHANGED <<inputs, out, checks, i, calls, exited>>

Next ==
    \/ BuildOk
    \/ BuildErr
    \/ PrintVersion
    \/ PrintShell
    \/ PrintEnvVars
    \/ PrintSettings
    \/ PrintConfigFiles
    \/ PrintPlugins
    \/ PrintToolset
    \/ CheckPlugin
    \/ CheckPluginsEnd
    \/ CheckNewVersion
    \/ CheckActivated
    \/ NoProblems
    \/ PrintSummary
    \/ PrintProblem
    \/ Exit
    \/ ReturnOk

(***************************************************************************)
(* Specifications.  They share Next and differ in the inputs they draw.    *)
(***************************************************************************)
NoVars == {<<>>}

SomeVars == {<<>>, << <<"PATH", "/usr/bin">>, <<"RTX_DEBUG", "1">>, <<"RTX_DATA_DIR", "/data">> >>}

\* Every registry of up to MaxPlugins plugins; one shell, one list of config files.
Init ==
    InitWith(Configs(Registries(PluginNames, MaxPlugins), {<<"/etc/rtx.toml", ".rtx.toml">>}),
             Environments({"/bin/zsh"}, {"zsh"}, NoVars))

Spec == Init /\ [][Next]_vars

SmallRegistries ==
    {<<>>,
     <<[name |-> "zig", installed |-> FALSE, remote_url |-> None, sha |-> Err("not a git repository")]>>,
     <<[name |-> "zig", installed |-> TRUE, remote_url |-> None, sha |-> Err("not a git repository")]>>}

\* Every list of up to MaxConfigFiles config files.
InitConfig ==
    InitWith(Configs(SmallRegistries, ConfigFileLists(ConfigPaths, MaxConfigFiles)),
             Environments({"/bin/zsh"}, {"zsh"}, SomeVars))

SpecConfig == InitConfig /\ [][Next]_vars

ShellPaths == {"/bin/zsh", "/bin/rbash", "/usr/local/bin/fish", "bash", "sh"}

ShellNames == {"bash", "zsh", "fish", "sh"}

\* Every pairing of a configured default shell with a detected shell.
InitShell ==
    InitWith(Configs(SmallRegistries, {<<"/etc/rtx.toml", ".rtx.toml">>}),
             Environments(ShellPaths, ShellNames, SomeVars))

SpecShell == InitShell /\ [][Next]_vars

(***************************************************************************)
(* Properties.                                                             *)
(***************************************************************************)
\* The three checks have all been evaluated in this run.
AllChecksDone == pc \in {"summary", "print", "return"} \/ (pc = "done" /\ returned # "Err")

\* The positions of `checks` that hold message m.
Positions(m) == {c \in 1..Len(checks) : checks[c] = m}

\* Which check a problem message comes from: 1 plugins, 2 new version, 3 activation.
CheckOf(m) ==
    IF StartsWith(m, "plugin ") THEN 1
    ELSE IF StartsWith(m, "new rtx version ") THEN 2
    ELSE 3

\* C1: once the checks have run, every plugin that is not installed has exactly
\* one problem naming it and an installed plugin has none; the plugin problems
\* stand in registry order, before the new-version problem, which stands before
\* the not-activated problem.
C1_PluginProblemsInRegistryOrder ==
    AllChecksDone =>
        LET P == config.plugins
            Msg(k) == "plugin " \o P[k].name \o " is not installed"
        IN /\ \A k \in 1..Len(P) :
                 Cardinality(Positions(Msg(k))) = IF P[k].installed THEN 0 ELSE 1
           /\ \A k1, k2 \in 1..Len(P) :
                 k1 < k2 => \A c1 \in Positions(Msg(k1)), c2 \in Positions(Msg(k2)) : c1 < c2
           /\ \A c1, c2 \in 1..Len(checks) :
                 c1 < c2 => CheckOf(checks[c1]) <= CheckOf(checks[c2])
           /\ \A c1, c2 \in 1..Len(checks) :
                 (c1 # c2 /\ CheckOf(checks[c1]) = CheckOf(checks[c2])) => CheckOf(checks[c1]) = 1

\* A finished run over three plugins, two of them not installed, that also found
\* a new version and a missing activation.
C1_Witness ==
    /\ pc = "done"
    /\ Len(config.plugins) = 3
    /\ Cardinality({k \in 1..3 : ~config.plugins[k].installed}) = 2
    /\ Len(checks) = 4
    /\ CheckOf(checks[3]) = 2
    /\ CheckOf(checks[4]) = 3

\* Whether some write to `out` holds line l.
Written(l) == \E w \in 1..Len(out) : \E k \in 1..Len(out[w]) : out[w][k] = l

\* Whether some write to `out` holds a line ending in t.
WrittenEndingIn(t) == \E w \in 1..Len(out) : \E k \in 1..Len(out[w]) : EndsWith(out[w][k], t)

\* C2: a finished run with no problems wrote "No problems found" and no summary
\* line, and returned Ok without calling exit (status 0); a finished run with
\* n >= 1 problems wrote the summary with n and "problem"/"problems", then the n
\* messages in list order, and called exit(1).
C2_SummaryAndExitStatus ==
    (pc = "done" /\ returned # "Err") =>
        LET n == Len(checks)
        IN IF n = 0
           THEN /\ Len(out) = 8
                /\ out[8] = <<"No problems found">>
                /\ ~WrittenEndingIn(" found:")
                /\ returned = "Ok"
                /\ exited = None
           ELSE /\ Len(out) = 8 + n
                /\ out[8] = <<ToString(n) \o (IF n = 1 THEN " problem" ELSE " problems")
                                           \o " found:">>
                /\ \A k \in 1..n : out[8 + k] = <<checks[k], "">>
                /\ ~Written("No problems found")
                /\ returned = "none"
                /\ exited = Some(1)

\* A finished run with exactly one problem: the singular summary.
C2_Witness ==
    /\ pc = "done"
    /\ Len(checks) = 1
    /\ out[8] = <<"1 problem found:">>
    /\ exited = Some(1)

\* The headers of the seven views, in the order run writes them.
ViewHeaders ==
    <<"rtx version:", "shell:", "rtx environment variables:", "settings:",
      "config files:", "plugins:", "toolset:">>

\* The calls of kind op in the call log.
Called(op) == {c \in 1..Len(calls) : calls[c][1] = op}

\* All three checks have been evaluated: is_installed asked of every plugin,
\* the release checker and the activation state queried.
ChecksEvaluated ==
    /\ \A k \in 1..Len(config.plugins) :
          \E c \in Called("is_installed") : calls[c][2] = config.plugins[k].name
    /\ Called("check_for_new_version") # {}
    /\ Called("is_activated") # {}

\* C3: when exit(1) has been called, the seven views, the summary and every
\* problem message are already written; and whenever the summary is written,
\* all three checks have been evaluated.
C3_ExitAfterFullReport ==
    /\ exited # None =>
          /\ Len(out) = 8 + Len(checks)
          /\ \A v \in 1..7 : out[v][1] = ViewHeaders[v]
          /\ EndsWith(out[8][1], " found:")
          /\ \A k \in 1..Len(checks) : out[8 + k][1] = checks[k]
    /\ Len(out) >= 8 => ChecksEvaluated

\* exit(1) called in a run whose first plugin is not installed and that found
\* two more problems after it.
C3_Witness ==
    /\ exited = Some(1)
    /\ Len(config.plugins) >= 1
    /\ ~config.plugins[1].installed
    /\ Len(checks) >= 3

\* C4: a run whose toolset construction failed returns Err having written
\* nothing, rendered no view, evaluated no check and not called exit; and
\* anything is written only in runs whose toolset construction succeeded.
C4_BuildFailureIsFatal ==
    /\ (~IsOk(toolset_build) /\ pc = "done") => returned = "Err"
    /\ returned = "Err" =>
          /\ ~IsOk(toolset_build)
          /\ out = <<>>
          /\ checks = <<>>
          /\ calls = << <<"ToolsetBuilder::build", "">> >>
          /\ exited = None
    /\ out # <<>> =>
          /\ IsOk(toolset_build)
          /\ calls[1] = <<"ToolsetBuilder::build", "">>

\* A run that ended with the build failure returned to the caller.
C4_Witness == pc = "done" /\ returned = "Err" /\ ~IsOk(toolset_build)

\* C5: the new-version check adds exactly one problem, naming the latest and
\* the running version, iff the release checker returned a version; a failed or
\* unreachable query or an up-to-date answer adds none; either way the run goes
\* on to the activation check.
C5_NewVersionBestEffort ==
    LET latest == check_for_new_version(release)
        found == {c \in 1..Len(checks) : CheckOf(checks[c]) = 2}
    IN /\ AllChecksDone =>
             /\ Cardinality(found) = IF latest # None THEN 1 ELSE 0
             /\ release.kind \in {"failed", "unreachable", "up_to_date"} => found = {}
             /\ \A c \in found :
                   checks[c] = "new rtx version " \o release.latest
                                 \o " available, currently on 1.30.4"
             /\ \E a \in Called("check_for_new_version"), b \in Called("is_activated") : a < b
       /\ Called("check_for_new_version") # {} =>
             /\ returned # "Err"
             /\ pc \in {"check_activated", "summary", "print", "return", "done"}

\* A finished run whose release query failed and whose activation check then
\* found the tool not activated.
C5_Witness ==
    /\ pc = "done"
    /\ release.kind = "failed"
    /\ Called("is_activated") # {}
    /\ checks = <<not_activated_msg>>

\* The problems that the install states, the release checker's answer and the
\* activation state call for, and nothing else.
RECURSIVE NotInstalled(_)
NotInstalled(ps) ==
    IF ps = <<>> THEN <<>>
    ELSE (IF Head(ps).installed THEN <<>>
          ELSE <<"plugin " \o Head(ps).name \o " is not installed">>)
           \o NotInstalled(Tail(ps))

ExpectedProblems ==
    NotInstalled(config.plugins)
      \o (IF release.kind = "newer"
          THEN <<"new rtx version " \o release.latest \o " available, currently on 1.30.4">>
          ELSE <<>>)
      \o (IF config.activated THEN <<>> ELSE <<not_activated_msg>>)

\* C6: in a run whose toolset was built, an undetected shell is rendered as
\* "(unknown)", a failed version probe as the prefixed error text, a failed
\* revision lookup as "(unknown)" in the revision slot; the run still ends with
\* all seven views written and the three checks evaluated, and its problems and
\* exit status are those of the install states, the release answer and the
\* activation state alone.
C6_FailuresBecomePlaceholders ==
    IsOk(toolset_build) =>
        /\ Len(out) >= 2 =>
              /\ environment.shell_type = None => out[2] = <<"shell:", "  (unknown)", "">>
              /\ (environment.shell_type # None /\ ~IsOk(environment.probe)) =>
                    /\ Len(out[2]) = 4
                    /\ out[2][3] = "  failed to get shell version: " \o environment.probe.err
        /\ Len(out) >= 6 =>
              /\ Len(out[6]) = Len(config.plugins) + 2
              /\ \A k \in 1..Len(config.plugins) :
                    (config.plugins[k].remote_url # None /\ ~IsOk(config.plugins[k].sha))
                        => EndsWith(out[6][k + 1], "#(unknown)")
        /\ pc = "done" =>
              /\ Len(out) >= 8
              /\ \A v \in 1..7 : out[v][1] = ViewHeaders[v]
              /\ ChecksEvaluated
              /\ checks = ExpectedProblems
              /\ exited = (IF ExpectedProblems = <<>> THEN None ELSE Some(1))
              /\ returned = (IF ExpectedProblems = <<>> THEN "Ok" ELSE "none")

\* A finished run in which the version probe and a revision lookup failed and
\* which found no problem.
C6_Witness ==
    /\ pc = "done"
    /\ environment.shell_type # None
    /\ ~IsOk(environment.probe)
    /\ \E k \in 1..Len(config.plugins) :
          config.plugins[k].remote_url # None /\ ~IsOk(config.plugins[k].sha)
    /\ returned = "Ok"
    /\ Written("No problems found")

\* The part of a path after its last "/".
Basename(path) ==
    LET slashes == {k \in 1..Len(path) : SubSeq(path, k, k) = "/"}
    IN IF slashes = {} THEN path
       ELSE SubSeq(path, (CHOOSE k \in slashes : \A j \in slashes : j <= k) + 1, Len(path))

\* C7: when a shell is detected, the shell probe invokes and renders the full
\* configured path if the basename of that path is the detected name, and the
\* bare detected name in every other case.
C7_FullPathIffBasenameMatches ==
    (Len(out) >= 2 /\ environment.shell_type # None) =>
        LET name == Unwrap(environment.shell_type)
            expected == IF Basename(environment.SHELL) = name THEN environment.SHELL ELSE name
        IN /\ Called("cmd --version") # {}
           /\ \A c \in Called("cmd --version") : calls[c][2] = expected
           /\ out[2][2] = "  " \o expected

RECURSIVE TrimEnd(_)
TrimEnd(t) ==
    IF t # "" /\ SubSeq(t, Len(t), Len(t)) = " " THEN TrimEnd(SubSeq(t, 1, Len(t) - 1)) ELSE t

\* C8: the plugin view has one row per registered plugin, in registry order,
\* whatever its install state; the row ends in "url#revision" iff the plugin has
\* a remote URL, with "(unknown)" for a revision that cannot be read; a plugin
\* without remote has its padded name alone and its revision is never looked up.
C8_OneRowPerPlugin ==
    Len(out) >= 6 =>
        LET view == out[6]
            P == config.plugins
        IN /\ Len(view) = Len(P) + 2
           /\ view[1] = "plugins:"
           /\ view[Len(view)] = ""
           /\ \A k \in 1..Len(P) :
                 LET row == view[k + 1]
                     looked_up == \E c \in Called("current_sha_short") : calls[c][2] = P[k].name
                 IN /\ StartsWith(row, "  " \o P[k].name)
                    /\ IF P[k].remote_url # None
                       THEN /\ EndsWith(row, " " \o Unwrap(P[k].remote_url) \o "#"
                                              \o (IF IsOk(P[k].sha) THEN P[k].sha.ok
                                                  ELSE "(unknown)"))
                            /\ looked_up
                       ELSE /\ TrimEnd(row) = "  " \o P[k].name
                            /\ ~looked_up

\* The view written for three plugins of which one is not installed and has a
\* remote with unreadable revision, and one has no remote.
C8_Witness ==
    /\ Len(out) >= 6
    /\ Len(config.plugins) = 3
    /\ \E k \in 1..3 :
          /\ ~config.plugins[k].installed
          /\ config.plugins[k].remote_url # None
          /\ ~IsOk(config.plugins[k].sha)
          /\ EndsWith(out[6][k + 1], ".git#(unknown)")
    /\ \E k \in 1..3 : config.plugins[k].remote_url = None

Reverse(seq) == [k \in 1..Len(seq) |-> seq[Len(seq) + 1 - k]]

\* C9: the config view has one row per config file of the configuration, none
\* added or dropped, in the reverse of the discovery order; reversing the
\* rendered order gives the discovery order back.
C9_ConfigFilesReversed ==
    Len(out) >= 5 =>
        LET view == out[5]
            files == config.config_files
            n == Len(files)
            rendered == [k \in 1..n |-> SubSeq(view[k + 1], 3, Len(view[k + 1]))]
        IN /\ Len(view) = n + 2
           /\ view[1] = "config files:"
           /\ view[n + 2] = ""
           /\ \A k \in 1..n : view[k + 1] = "  " \o files[n + 1 - k]
           /\ Range(rendered) = Range(files)
           /\ Reverse(rendered) = files

\* The view written for three config files: the last discovered comes first.
C9_Witness ==
    /\ Len(out) >= 5
    /\ Len(config.config_files) = 3
    /\ out[5][2] = "  " \o config.config_files[3]
    /\ out[5][4] = "  " \o config.config_files[1]
    /\ config.config_files[1] # config.config_files[3]

\* C10: every row of the plugin view has its name field left-aligned and padded
\* with spaces to the length of the longest plugin name of the registry; no name
\* is cut, and the field is followed by nothing or by the " url#revision" suffix.
C10_CommonNameWidth ==
    Len(out) >= 6 =>
        LET P == config.plugins
            lens == {Len(P[k].name) : k \in 1..Len(P)}
            W == IF lens = {} THEN 0 ELSE CHOOSE w \in lens : \A l \in lens : l <= w
        IN /\ Len(out[6]) = Len(P) + 2
           /\ \A k \in 1..Len(P) :
                 LET row == out[6][k + 1]
                 IN /\ Len(row) >= 2 + W
                    /\ SubSeq(row, 1, 2) = "  "
                    /\ SubSeq(row, 3, 2 + Len(P[k].name)) = P[k].name
                    /\ \A c \in (3 + Len(P[k].name))..(2 + W) : SubSeq(row, c, c) = " "
                    /\ Len(row) > 2 + W =>
                          /\ P[k].remote_url # None
                          /\ StartsWith(SubSeq(row, 3 + W, Len(row)),
                                        " " \o Unwrap(P[k].remote_url))

\* The view written for names of lengths 3, 7, 5: each name field is 7 wide.
C10_Witness ==
    /\ Len(out) >= 6
    /\ [k \in 1..Len(config.plugins) |-> Len(config.plugins[k].name)] = <<3, 7, 5>>
    /\ StartsWith(out[6][2], "  zig     ")
    /\ StartsWith(out[6][3], "  haskell")
    /\ StartsWith(out[6][4], "  ocaml   ")

====
